---- MODULE Spec2Model ----
(***************************************************************************)
(* Model of start_server.py: the emulated-device command server.           *)
(*                                                                         *)
(* Threads: main(), one EmulatedDeviceServer.run() per device kind, one    *)
(* listen_on() per device kind running handle() inline.  The specification *)
(* SpecConc additionally drives handle() from two threads against one      *)
(* EmulatedDeviceKind, to examine the is_working protocol on its own.      *)
(***************************************************************************)
EXTENDS Integers, Sequences, FiniteSets, TLC

\* ------------------------------------------------------------- bounds
\* total number of requests the clients send
MaxReq == 2
\* total number of connections the clients open
MaxConn == 1
\* largest image byte size the camera returns
MaxSize == 2

\* ------------------------------------------------------------- constants
\* Queue(maxsize=100)
QueueMaxsize == 100
Devices == {"tem", "cam"}
\* handler threads: the two listener threads, and a second thread calling
\* handle() on the tem registration (SpecConc only)
Handlers == {"tem", "cam", "tem2"}
Listeners == {"tem", "cam"}
DevOf(h) == IF h = "cam" THEN "cam" ELSE "tem"

\* operation names a decoded mapping may carry under func_name / attr_name
Ops == {"call", "attr", "nope", "get_image", "<none>"}
PayloadOps == {"get_image"}
Tags == {1, 2}
Sizes == 1..MaxSize

\* ------------------------------------------------------------- state
VARIABLES
    stop_program_event, \* threading.Event
    mpc,                \* main(): position
    memory,             \* SharedImageProxy.memory
    shm,                \* the OS segment currently linked under NAME
    nalloc,             \* number of segments created under NAME so far
    queue,              \* EmulatedDeviceKind.queue, per device
    response_cache,     \* EmulatedDeviceKind.response_cache, per device
    is_working,         \* EmulatedDeviceKind.is_working: [owner, waiters]
    wpc,                \* EmulatedDeviceServer.run(): position, per device
    cmd,                \* run(): the dequeued cmd
    ret,                \* evaluate(): the image being pushed
    hpc,                \* listen_on()/handle(): position, per handler thread
    nread,              \* requests decoded on the current connection
    sent,               \* responses written on the current connection
    nreq,               \* requests decoded so far, all connections
    nconn               \* connections accepted so far, all listeners

vars == <<stop_program_event, mpc, memory, shm, nalloc, queue, response_cache,
          is_working, wpc, cmd, ret, hpc, nread, sent, nreq, nconn>>

regVars == <<queue, response_cache, is_working>>
memVars == <<memory, shm, nalloc>>
workerVars == <<wpc, cmd, ret>>
handlerVars == <<hpc, nread, sent, nreq, nconn>>
mainVars == <<stop_program_event, mpc>>

\* ------------------------------------------------------------- values
NoCmd == [map |-> FALSE, op |-> "-", id |-> 0, by |-> "-", pre |-> FALSE]
NoImage == [size |-> 0, tag |-> 0]
\* SharedImageProxy.memory = None
None == [seg |-> 0, size |-> 0, closed |-> FALSE]
\* no segment linked under NAME
NoSeg == [id |-> 0, size |-> 0, bytes |-> <<>>]
\* a segment left under NAME by an earlier process
StaleSeg == [id |-> -1, size |-> 1, bytes |-> <<0>>]

\* the bytes of an image: size copies of its tag
ImageBytes(image) == [i \in 1..image.size |-> image.tag]

Value(kind, name, size, tag) ==
    [kind |-> kind, name |-> name, size |-> size, tag |-> tag]

Last(q) == q[Len(q)]

\* (status, ret) as appended to response_cache; id, by, op, dev and dval
\* record which command it answers and what the device did
Response(status, payload, c, dev, dval) ==
    [status |-> status, payload |-> payload, id |-> c.id, by |-> c.by,
     op |-> c.op, dev |-> dev, dval |-> dval]

\* ------------------------------------------------------------- Init
\* State after main() has started the four threads (lines 227-247): both
\* device servers in queue.get, both listeners at the top of their loop.
\* A segment of an earlier process may still be linked under NAME.
InitCommon ==
    /\ stop_program_event = FALSE
    /\ mpc = "run"
    /\ memory = None
    /\ shm \in {NoSeg, StaleSeg}
    /\ nalloc = 0
    /\ queue = [d \in Devices |-> <<>>]
    /\ response_cache = [d \in Devices |-> <<>>]
    /\ is_working = [d \in Devices |-> [owner |-> "free", waiters |-> <<>>]]
    /\ wpc = [d \in Devices |-> "get"]
    /\ cmd = [d \in Devices |-> NoCmd]
    /\ ret = [d \in Devices |-> NoImage]
    /\ nread = [h \in Handlers |-> 0]
    /\ sent = [h \in Handlers |-> <<>>]
    /\ nreq = 0
    /\ nconn = 0

Init ==
    /\ InitCommon
    /\ hpc = [h \in Handlers |-> IF h \in Listeners THEN "l_check" ELSE "off"]

\* ------------------------------------------------------------- SharedImageProxy
\* SharedMemory.unlink() removes whatever is linked under NAME;
\* FileNotFoundError is swallowed (lines 68-71)
Unlink(s) == NoSeg

\* release(), lines 64-72, on the broker state b = [memory, shm, nalloc]
Release(b) ==
    IF b.memory = None
    THEN b
    ELSE [b EXCEPT !.memory = None, !.shm = Unlink(b.shm)]

\* release() without the try/except of lines 68-71: FileNotFoundError
\* leaves release()
ReleaseOutcome_NoExcept(b) ==
    IF b.memory = None THEN "nothing held"
    ELSE IF b.shm = NoSeg THEN "raised"
    ELSE "unlinked"

\* how release() ends, lines 64-72: it returns at once when nothing is held
\* (line 65-66), swallows the FileNotFoundError of unlink() when nothing is
\* linked under NAME (lines 70-71), or unlinks
ReleaseOutcome(b) ==
    IF b.memory = None THEN "nothing held"
    ELSE IF b.shm = NoSeg THEN "not found"
    ELSE "unlinked"

\* SharedMemory(name=NAME, create=True, size=image_size): a fresh zero-filled
\* segment linked under NAME
Create(b, image_size) ==
    [memory |-> [seg |-> b.nalloc + 1, size |-> image_size, closed |-> FALSE],
     shm |-> [id |-> b.nalloc + 1, size |-> image_size,
              bytes |-> [i \in 1..image_size |-> 0]],
     nalloc |-> b.nalloc + 1]

\* initialize(), lines 41-53: release, create; on FileExistsError attach the
\* stale segment, close and unlink it, create again
Initialize(b, image_size) ==
    LET r == Release(b)
    IN IF r.shm = NoSeg
       THEN Create(r, image_size)
       ELSE Create([r EXCEPT !.shm = Unlink(r.shm)], image_size)

\* a segment that another process links under NAME
OtherSeg == [id |-> -2, size |-> 1, bytes |-> <<0>>]

\* initialize(), lines 45-47: the first create raises FileExistsError
FirstCreateFails(b) == Release(b).shm # NoSeg

\* initialize(), lines 48-52, when another process links NAME again between
\* the unlink and the second create: line 52 raises FileExistsError out of
\* initialize(), cls.memory left None by release()
InitializeRaced(b) == [Release(b) EXCEPT !.shm = OtherSeg]

\* push(), lines 57-59: the test that decides on a new segment
NeedsInitialize(m, image_size) == m = None \/ m.size # image_size

\* push(), lines 57-59
PushInit(b, image) ==
    IF NeedsInitialize(b.memory, image.size)
    THEN Initialize(b, image.size)
    ELSE b

\* push(), lines 60-61: outcome of mapping cls.memory.buf and copying.
\* "AttributeError": memory is None; "TypeError": buffer too small;
\* "private": the SharedMemory object is closed, buf is None and numpy
\* allocates its own array; "ok": the bytes go into the mapped segment
CopyOutcome(m, image) ==
    IF m = None THEN "AttributeError"
    ELSE IF m.closed THEN "private"
    ELSE IF m.size < image.size THEN "TypeError"
    ELSE "ok"

\* push(), line 61: b[:] = image[:] into the segment mapped by memory
CopyInto(s, m, image) ==
    IF s.id = m.seg
    THEN [s EXCEPT !.bytes = [i \in 1..s.size |->
                IF i <= image.size THEN image.tag ELSE s.bytes[i]]]
    ELSE s

Broker == [memory |-> memory, shm |-> shm, nalloc |-> nalloc]
SetBroker(b) ==
    /\ memory' = b.memory
    /\ shm' = b.shm
    /\ nalloc' = b.nalloc

\* ------------------------------------------------------------- EmulatedDeviceServer
\* line 138 as getattr(self.device, func_name, None): a missing name
\* resolves to a plain attribute
Resolve_Default(d, op) ==
    IF op = "<none>" THEN "TypeError"
    ELSE IF op = "nope" THEN "attribute"
    ELSE IF op \in PayloadOps /\ d # "cam" THEN "attribute"
    ELSE IF op = "attr" THEN "attribute"
    ELSE "callable"

\* getattr(self.device, func_name), line 138: a name that is no string, a
\* missing attribute, a plain attribute or a callable.  SimuMicroscope offers
\* no get_image / get_movie; only the camera resolves them.
Resolve(d, op) ==
    IF op = "<none>" THEN "TypeError"
    ELSE IF op = "nope" THEN "AttributeError"
    ELSE IF op \in PayloadOps /\ d # "cam" THEN "AttributeError"
    ELSE IF op = "attr" THEN "attribute"
    ELSE "callable"

\* what the device's callable does when invoked
DeviceOutcomes == {"returned", "raised", "typeerror"}

\* evaluate() without the except TypeError clause of lines 141-142: calling
\* a plain attribute raises into run()'s except clause
Evaluate_NoFallback(d, c, o, t) ==
    LET r == Resolve(d, c.op)
        Err(name, dev) == [push |-> FALSE, status |-> 500,
                           payload |-> Value("error", name, 0, 0),
                           dev |-> dev, dval |-> 0]
        Ok(v, dev, dv) == [push |-> FALSE, status |-> 200, payload |-> v,
                           dev |-> dev, dval |-> dv]
    IN  IF r = "TypeError" THEN Err("TypeError", "badname")
        ELSE IF r = "AttributeError" THEN Err("AttributeError", "noattr")
        ELSE IF r = "attribute"
             THEN Err("TypeError", "notcallable")
        ELSE IF o = "raised" THEN Err("DeviceError", "raised")
        ELSE IF o = "typeerror"
             THEN IF c.op \in PayloadOps
                  THEN Err("AttributeError", "typeerror")
                  ELSE Ok(Value("method", c.op, 0, 0), "typeerror", 0)
        ELSE IF c.op \in PayloadOps
             THEN [push |-> TRUE, status |-> 200,
                   payload |-> Value("image", c.op, 0, t),
                   dev |-> "returned", dval |-> t]
        ELSE Ok(Value("value", c.op, 0, t), "returned", t)

\* evaluate(), lines 138-146, up to the call of push(); run()'s try/except,
\* lines 121-128, turns a raised exception into status 500.
\* o: what the callable does, t: the value it returns.
\* Result: the (status, ret) pair, or push = TRUE when push(image=ret) follows.
Evaluate(d, c, o, t) ==
    LET r == Resolve(d, c.op)
        Err(name, dev) == [push |-> FALSE, status |-> 500,
                           payload |-> Value("error", name, 0, 0),
                           dev |-> dev, dval |-> 0]
        Ok(v, dev, dv) == [push |-> FALSE, status |-> 200, payload |-> v,
                           dev |-> dev, dval |-> dv]
    IN  IF r = "TypeError" THEN Err("TypeError", "badname")
        ELSE IF r = "AttributeError" THEN Err("AttributeError", "noattr")
        ELSE IF r = "attribute"
             THEN Ok(Value("attr", c.op, 0, 0), "notcallable", 0)
        ELSE IF o = "raised" THEN Err("DeviceError", "raised")
        ELSE IF o = "typeerror"
             THEN IF c.op \in PayloadOps
                  THEN Err("AttributeError", "typeerror")
                  ELSE Ok(Value("method", c.op, 0, 0), "typeerror", 0)
        ELSE IF c.op \in PayloadOps
             THEN [push |-> TRUE, status |-> 200,
                   payload |-> Value("image", c.op, 0, t),
                   dev |-> "returned", dval |-> t]
        ELSE Ok(Value("value", c.op, 0, t), "returned", t)

\* run(), lines 130-132 and the end of the with block: append the response,
\* notify one waiter, release is_working, go back to queue.get
Publish(d, resp) ==
    LET w == is_working[d].waiters
    IN  /\ response_cache' = [response_cache EXCEPT ![d] = Append(@, resp)]
        /\ is_working' = [is_working EXCEPT ![d] =
               [owner |-> "free",
                waiters |-> IF w = <<>> THEN <<>> ELSE Tail(w)]]
        /\ hpc' = IF w = <<>> THEN hpc
                  ELSE [hpc EXCEPT ![Head(w)] = "h_notified"]
        /\ wpc' = [wpc EXCEPT ![d] = "get"]
        /\ cmd' = [cmd EXCEPT ![d] = NoCmd]
        /\ ret' = [ret EXCEPT ![d] = NoImage]
        /\ UNCHANGED <<queue, nread, sent, nreq, nconn>>

\* run(), line 111: queue.get returns a command
WorkerGet(d) ==
    /\ wpc[d] = "get"
    /\ queue[d] # <<>>
    /\ cmd' = [cmd EXCEPT ![d] = Head(queue[d])]
    /\ queue' = [queue EXCEPT ![d] = Tail(@)]
    /\ wpc' = [wpc EXCEPT ![d] = "lock"]
    /\ UNCHANGED <<response_cache, is_working, ret, memVars, handlerVars, mainVars>>

\* run(), lines 111-112: queue.get times out on an empty queue
WorkerTimeout(d) ==
    /\ wpc[d] = "get"
    /\ queue[d] = <<>>
    /\ wpc' = [wpc EXCEPT ![d] = "timedout"]
    /\ UNCHANGED <<cmd, ret, regVars, memVars, handlerVars, mainVars>>

\* run(), lines 113-115: after Empty, leave the loop if the event is set
WorkerCheckStop(d) ==
    /\ wpc[d] = "timedout"
    /\ wpc' = [wpc EXCEPT ![d] = IF stop_program_event THEN "done" ELSE "get"]
    /\ UNCHANGED <<cmd, ret, regVars, memVars, handlerVars, mainVars>>

\* run(), lines 116-119: acquire is_working, read the command's fields.
\* cmd.get on a value that is no mapping raises AttributeError outside the
\* try block: the with block releases is_working and the thread ends.
WorkerEnter(d) ==
    /\ wpc[d] = "lock"
    /\ is_working[d].owner = "free"
    /\ IF cmd[d].map
       THEN /\ is_working' = [is_working EXCEPT ![d].owner = "worker"]
            /\ wpc' = [wpc EXCEPT ![d] = "evaluate"]
       ELSE /\ wpc' = [wpc EXCEPT ![d] = "crashed"]
            /\ UNCHANGED is_working
    /\ UNCHANGED <<cmd, ret, queue, response_cache, memVars, handlerVars, mainVars>>

\* run(), lines 121-132 with evaluate(), lines 138-143
WorkerEvaluate(d) ==
    /\ wpc[d] = "evaluate"
    /\ \E o \in DeviceOutcomes, t \in Tags, z \in Sizes :
         LET e == Evaluate(d, cmd[d], o, t)
         IN  IF e.push
             THEN /\ ret' = [ret EXCEPT ![d] = [size |-> z, tag |-> t]]
                  /\ wpc' = [wpc EXCEPT ![d] = "push"]
                  /\ UNCHANGED <<cmd, regVars, handlerVars>>
             ELSE Publish(d, Response(e.status, e.payload, cmd[d], e.dev, e.dval))
    /\ UNCHANGED <<memVars, mainVars>>

\* evaluate() line 144 into push(), lines 57-59
WorkerPushInit(d) ==
    /\ wpc[d] = "push"
    /\ SetBroker(PushInit(Broker, ret[d]))
    /\ wpc' = [wpc EXCEPT ![d] = "copy"]
    /\ UNCHANGED <<cmd, ret, regVars, handlerVars, mainVars>>

\* the failure of line 52 with no except clause in run(): the exception
\* ends the server thread inside the with block, which releases is_working
WorkerPushInitFails_Uncaught(d) ==
    /\ wpc[d] = "push"
    /\ NeedsInitialize(memory, ret[d].size)
    /\ FirstCreateFails(Broker)
    /\ SetBroker(InitializeRaced(Broker))
    /\ wpc' = [wpc EXCEPT ![d] = "crashed"]
    /\ is_working' = [is_working EXCEPT ![d].owner = "free"]
    /\ UNCHANGED <<cmd, ret, queue, response_cache, handlerVars, mainVars>>

\* push() line 59 into initialize(), the second create failing as well
\* (line 52); the exception reaches run()'s except clause, lines 124-128
WorkerPushInitFails(d) ==
    /\ wpc[d] = "push"
    /\ NeedsInitialize(memory, ret[d].size)
    /\ FirstCreateFails(Broker)
    /\ SetBroker(InitializeRaced(Broker))
    /\ Publish(d, Response(500, Value("error", "FileExistsError", 0, 0),
                           cmd[d], "returned", ret[d].tag))
    /\ UNCHANGED mainVars

\* push(), lines 60-61, evaluate(), lines 145-146, run(), lines 123-132
WorkerPushCopy(d) ==
    /\ wpc[d] = "copy"
    /\ LET out == CopyOutcome(memory, ret[d])
       IN  /\ shm' = IF out = "ok" THEN CopyInto(shm, memory, ret[d]) ELSE shm
           /\ IF out \in {"ok", "private"}
              THEN Publish(d, Response(200,
                       Value("descriptor", "emulator", ret[d].size, ret[d].tag),
                       cmd[d], "returned", ret[d].tag))
              ELSE Publish(d, Response(500, Value("error", out, 0, 0),
                       cmd[d], "returned", ret[d].tag))
    /\ UNCHANGED <<memory, nalloc, mainVars>>

Worker(d) ==
    \/ WorkerGet(d)
    \/ WorkerTimeout(d)
    \/ WorkerCheckStop(d)
    \/ WorkerEnter(d)
    \/ WorkerEvaluate(d)
    \/ WorkerPushInit(d)
    \/ WorkerPushInitFails(d)
    \/ WorkerPushCopy(d)

\* ------------------------------------------------------------- handle / listen_on
\* what loader(data) yields for the bytes a client sends: a value that cannot
\* be decoded, a sentinel, a value that is no mapping, or a mapping naming op
RequestValues == {"<undecodable>", "exit", "kill", "<nonmap>"} \cup Ops

\* the ways out of handle()'s loop: break at lines 154 and 157, break on a
\* sentinel at line 162, an exception
Leaving == {"x_break", "x_sentinel", "x_error"}

\* handle() leaves its loop by `how`; the connection is still open
Leave(h, how) ==
    /\ hpc' = [hpc EXCEPT ![h] = how]
    /\ UNCHANGED <<nread, sent>>

\* the with block closes the connection (line 151) and control is back in
\* listen_on (line 183, or the except clause of lines 186-187)
CloseConnection(h) ==
    /\ hpc' = [hpc EXCEPT ![h] = "l_check"]
    /\ nread' = [nread EXCEPT ![h] = 0]
    /\ sent' = [sent EXCEPT ![h] = <<>>]

\* handle(), line 151 on the way out; listen_on(), lines 183-187
HandleLeave(h) ==
    /\ hpc[h] \in Leaving
    /\ CloseConnection(h)
    /\ UNCHANGED <<nreq, nconn, regVars, memVars, workerVars, mainVars>>

\* listen_on(), lines 178-180
ListenerCheck(h) ==
    /\ hpc[h] = "l_check"
    /\ hpc' = [hpc EXCEPT ![h] = IF stop_program_event THEN "l_done" ELSE "accept"]
    /\ UNCHANGED <<nread, sent, nreq, nconn, regVars, memVars, workerVars, mainVars>>

\* listen_on(), lines 182, 184-185: accept() times out
AcceptTimeout(h) ==
    /\ hpc[h] = "accept"
    /\ hpc' = [hpc EXCEPT ![h] = "l_check"]
    /\ UNCHANGED <<nread, sent, nreq, nconn, regVars, memVars, workerVars, mainVars>>

\* listen_on(), lines 182-183: a client connects, handle() is entered
Accept(h) ==
    /\ hpc[h] = "accept"
    /\ nconn < MaxConn
    /\ nconn' = nconn + 1
    /\ hpc' = [hpc EXCEPT ![h] = "h_check"]
    /\ UNCHANGED <<nread, sent, nreq, regVars, memVars, workerVars, mainVars>>

\* handle(), lines 152-154
HandleCheck(h) ==
    /\ hpc[h] = "h_check"
    /\ IF stop_program_event
       THEN Leave(h, "x_break")
       ELSE /\ hpc' = [hpc EXCEPT ![h] = "recv"]
            /\ UNCHANGED <<nread, sent>>
    /\ UNCHANGED <<nreq, nconn, regVars, memVars, workerVars, mainVars>>

\* handle(), lines 156-157: the client has closed, recv returns b''
RecvEOF(h) ==
    /\ hpc[h] = "recv"
    /\ Leave(h, "x_break")
    /\ UNCHANGED <<nreq, nconn, regVars, memVars, workerVars, mainVars>>

\* handle(), line 156: the connection is reset, recv raises
RecvReset(h) ==
    /\ hpc[h] = "recv"
    /\ Leave(h, "x_error")
    /\ UNCHANGED <<nreq, nconn, regVars, memVars, workerVars, mainVars>>

\* the sentinels of handle(), line 161
Sentinels == {"exit", "kill"}

\* handle(), lines 156-165, with the queue.put of line 165 done before
\* is_working is acquired
Recv_PutBeforeLock(h, v) ==
    /\ hpc[h] = "recv"
    /\ nreq < MaxReq
    /\ IF v \in {"<undecodable>"} \cup Sentinels
       THEN /\ Leave(h, IF v = "<undecodable>" THEN "x_error" ELSE "x_sentinel")
            /\ UNCHANGED <<nreq, queue, is_working>>
       ELSE /\ Len(queue[DevOf(h)]) < QueueMaxsize
            /\ UNCHANGED is_working
            /\ queue' = [queue EXCEPT ![DevOf(h)] = Append(@,
                   [map |-> v # "<nonmap>", op |-> v, id |-> nread[h] + 1,
                    by |-> h, pre |-> ~stop_program_event])]
            /\ nread' = [nread EXCEPT ![h] = @ + 1]
            /\ nreq' = nreq + 1
            /\ hpc' = [hpc EXCEPT ![h] = "h_prewait"]
            /\ UNCHANGED sent
    /\ UNCHANGED <<nconn, response_cache, memVars, workerVars, mainVars>>

\* handle(), lines 156-165, with a test at line 161 that knows "exit" only
Recv_OneSentinel(h, v) ==
    /\ hpc[h] = "recv"
    /\ nreq < MaxReq
    /\ IF v \in {"<undecodable>", "exit"}
       THEN /\ Leave(h, IF v = "<undecodable>" THEN "x_error" ELSE "x_sentinel")
            /\ UNCHANGED <<nreq, queue, is_working>>
       ELSE /\ is_working[DevOf(h)].owner = "free"
            /\ Len(queue[DevOf(h)]) < QueueMaxsize
            /\ is_working' = [is_working EXCEPT ![DevOf(h)].owner = h]
            /\ queue' = [queue EXCEPT ![DevOf(h)] = Append(@,
                   [map |-> v # "<nonmap>", op |-> v, id |-> nread[h] + 1,
                    by |-> h, pre |-> ~stop_program_event])]
            /\ nread' = [nread EXCEPT ![h] = @ + 1]
            /\ nreq' = nreq + 1
            /\ hpc' = [hpc EXCEPT ![h] = "h_prewait"]
            /\ UNCHANGED sent
    /\ UNCHANGED <<nconn, response_cache, memVars, workerVars, mainVars>>

\* handle(), lines 156-165: recv returns bytes; loader raises on bytes it
\* cannot decode (the exception leaves handle); a sentinel breaks the loop;
\* any other value is put on the queue with is_working held.
\* id numbers the requests of the connection, by names the submitting
\* thread, pre records whether the event was still unset at the put.
Recv(h, v) ==
    /\ hpc[h] = "recv"
    /\ nreq < MaxReq
    /\ IF v \in {"<undecodable>"} \cup Sentinels
       THEN /\ Leave(h, IF v = "<undecodable>" THEN "x_error" ELSE "x_sentinel")
            /\ UNCHANGED <<nreq, queue, is_working>>
       ELSE /\ is_working[DevOf(h)].owner = "free"
            /\ Len(queue[DevOf(h)]) < QueueMaxsize
            /\ is_working' = [is_working EXCEPT ![DevOf(h)].owner = h]
            /\ queue' = [queue EXCEPT ![DevOf(h)] = Append(@,
                   [map |-> v # "<nonmap>", op |-> v, id |-> nread[h] + 1,
                    by |-> h, pre |-> ~stop_program_event])]
            /\ nread' = [nread EXCEPT ![h] = @ + 1]
            /\ nreq' = nreq + 1
            /\ hpc' = [hpc EXCEPT ![h] = "h_prewait"]
            /\ UNCHANGED sent
    /\ UNCHANGED <<nconn, response_cache, memVars, workerVars, mainVars>>

\* handle(), line 166: is_working.wait() releases the lock and blocks
HandlerWait(h) ==
    /\ hpc[h] = "h_prewait"
    /\ is_working' = [is_working EXCEPT ![DevOf(h)] =
           [owner |-> "free", waiters |-> Append(@.waiters, h)]]
    /\ hpc' = [hpc EXCEPT ![h] = "h_waiting"]
    /\ UNCHANGED <<nread, sent, nreq, nconn, queue, response_cache, memVars, workerVars, mainVars>>

\* HandlerRetrieve reading response_cache[-1] where the code pops it
HandlerRetrieve_Peek(h) ==
    /\ hpc[h] = "h_notified"
    /\ is_working[DevOf(h)].owner = "free"
    /\ response_cache[DevOf(h)] # <<>>
    /\ sent' = [sent EXCEPT ![h] = Append(@,
           [by |-> Last(response_cache[DevOf(h)]).by,
            id |-> Last(response_cache[DevOf(h)]).id])]
    /\ hpc' = [hpc EXCEPT ![h] = "h_check"]
    /\ UNCHANGED <<nread, nreq, nconn, regVars, memVars, workerVars, mainVars>>

\* HandlerRetrieve sending response_cache[-1] and popping it afterwards: a
\* send that raises leaves the response in the list
HandlerRetrieve_SendFirst(h) ==
    /\ hpc[h] = "h_notified"
    /\ is_working[DevOf(h)].owner = "free"
    /\ LET rc == response_cache[DevOf(h)]
       IN  IF rc = <<>>
           THEN /\ Leave(h, "x_error")
                /\ UNCHANGED response_cache
           ELSE \/ /\ response_cache' = [response_cache EXCEPT ![DevOf(h)] =
                          SubSeq(rc, 1, Len(rc) - 1)]
                   /\ sent' = [sent EXCEPT ![h] = Append(@,
                          [by |-> rc[Len(rc)].by, id |-> rc[Len(rc)].id])]
                   /\ hpc' = [hpc EXCEPT ![h] = "h_check"]
                   /\ UNCHANGED nread
                \/ /\ Leave(h, "x_error")
                   /\ UNCHANGED response_cache
    /\ UNCHANGED <<nreq, nconn, queue, is_working, memVars, workerVars, mainVars>>

\* handle(), lines 166-168: notified, wait() re-acquires is_working, then
\* response_cache.pop() (the last element), send, release.
\* pop() from an empty list raises IndexError, and connection.send may
\* raise: either leaves handle(), the with block releasing is_working.
HandlerRetrieve(h) ==
    /\ hpc[h] = "h_notified"
    /\ is_working[DevOf(h)].owner = "free"
    /\ LET rc == response_cache[DevOf(h)]
       IN  IF rc = <<>>
           THEN /\ Leave(h, "x_error")
                /\ UNCHANGED response_cache
           ELSE /\ response_cache' = [response_cache EXCEPT ![DevOf(h)] =
                       SubSeq(rc, 1, Len(rc) - 1)]
                /\ \/ /\ sent' = [sent EXCEPT ![h] = Append(@,
                              [by |-> rc[Len(rc)].by, id |-> rc[Len(rc)].id])]
                      /\ hpc' = [hpc EXCEPT ![h] = "h_check"]
                      /\ UNCHANGED nread
                   \/ Leave(h, "x_error")
    /\ UNCHANGED <<nreq, nconn, queue, is_working, memVars, workerVars, mainVars>>

\* the steps of handle() taken by the server itself
HandlerStep(h) ==
    \/ HandleCheck(h)
    \/ HandleLeave(h)
    \/ HandlerWait(h)
    \/ HandlerRetrieve(h)

\* the steps of handle() that depend on the client
ClientStep(h) ==
    \/ RecvEOF(h)
    \/ RecvReset(h)
    \/ \E v \in RequestValues : Recv(h, v)

ListenerStep(h) ==
    \/ ListenerCheck(h)
    \/ AcceptTimeout(h)

\* ------------------------------------------------------------- main
\* main(), lines 249-254: KeyboardInterrupt ends the sleep loop, the
\* finally block sets the event
Interrupt ==
    /\ mpc = "run"
    /\ stop_program_event' = TRUE
    /\ mpc' = "release"
    /\ UNCHANGED <<regVars, memVars, workerVars, handlerVars>>

\* main(), line 255 into release(), lines 65-67
MainRelease ==
    /\ mpc = "release"
    /\ IF memory = None
       THEN /\ mpc' = "join"
            /\ UNCHANGED memory
       ELSE /\ memory' = [memory EXCEPT !.closed = TRUE]
            /\ mpc' = "unlink"
    /\ UNCHANGED <<stop_program_event, shm, nalloc, regVars, workerVars, handlerVars>>

\* release(), lines 68-71; cls.memory is read again, AttributeError if None
MainUnlink ==
    /\ mpc = "unlink"
    /\ IF memory = None
       THEN /\ mpc' = "crashed"
            /\ UNCHANGED shm
       ELSE /\ shm' = Unlink(shm)
            /\ mpc' = "clear"
    /\ UNCHANGED <<stop_program_event, memory, nalloc, regVars, workerVars, handlerVars>>

\* release(), line 72
MainClear ==
    /\ mpc = "clear"
    /\ memory' = None
    /\ mpc' = "join"
    /\ UNCHANGED <<stop_program_event, shm, nalloc, regVars, workerVars, handlerVars>>

WorkerEnded(d) == wpc[d] \in {"done", "crashed"}
ListenerEnded(h) == hpc[h] = "l_done"

\* main(), lines 256-259: the four join() calls return
MainJoin ==
    /\ mpc = "join"
    /\ \A d \in Devices : WorkerEnded(d)
    /\ \A h \in Listeners : ListenerEnded(h)
    /\ mpc' = "stopped"
    /\ UNCHANGED <<stop_program_event, regVars, memVars, workerVars, handlerVars>>

MainStep ==
    \/ MainRelease
    \/ MainUnlink
    \/ MainClear
    \/ MainJoin

\* ------------------------------------------------------------- specifications
Next ==
    \/ \E d \in Devices : Worker(d)
    \/ \E h \in Listeners : ListenerStep(h) \/ Accept(h) \/ HandlerStep(h) \/ ClientStep(h)
    \/ Interrupt
    \/ MainStep

Spec == Init /\ [][Next]_vars

\* Every thread of the process keeps running while it has a step to take.
\* Clients and the interrupt are under no obligation.
Fairness ==
    /\ \A d \in Devices : WF_vars(Worker(d))
    /\ \A h \in Listeners : WF_vars(ListenerStep(h) \/ HandlerStep(h))
    /\ WF_vars(MainStep)

FairSpec == Spec /\ Fairness

\* handle() called from two threads on the tem registration, each with an
\* accepted connection; the tem device server running
InitConc ==
    /\ InitCommon
    /\ hpc = [h \in Handlers |-> IF DevOf(h) = "tem" THEN "h_check" ELSE "off"]

NextConc ==
    \/ WorkerGet("tem")
    \/ WorkerTimeout("tem")
    \/ WorkerCheckStop("tem")
    \/ WorkerEnter("tem")
    \/ WorkerEvaluate("tem")
    \/ \E h \in {"tem", "tem2"} : HandlerStep(h) \/ ClientStep(h)

SpecConc == InitConc /\ [][NextConc]_vars

\* ------------------------------------------------------------- broker alone
\* SharedImageProxy driven by one thread that calls push() and release() one
\* call at a time, other processes linking and unlinking NAME in between.
\* mpc records the caller's last call.
Released == {"released", "released again"}

\* push(image), lines 57-61, run to its end
BrokerPush(image) ==
    /\ mpc # "crashed"
    /\ nalloc < MaxReq
    /\ LET b == PushInit(Broker, image)
       IN  SetBroker([b EXCEPT !.shm = CopyInto(b.shm, b.memory, image)])
    /\ mpc' = "pushed"
    /\ UNCHANGED <<stop_program_event, regVars, workerVars, handlerVars>>

\* push(image) with initialize() failing at line 52
BrokerPushFails(image) ==
    /\ mpc # "crashed"
    /\ NeedsInitialize(memory, image.size)
    /\ FirstCreateFails(Broker)
    /\ SetBroker(InitializeRaced(Broker))
    /\ mpc' = "pushed"
    /\ UNCHANGED <<stop_program_event, regVars, workerVars, handlerVars>>

\* release(), lines 64-72, run to its end
BrokerRelease ==
    /\ mpc # "crashed"
    /\ IF ReleaseOutcome(Broker) = "raised"
       THEN /\ mpc' = "crashed"
            /\ UNCHANGED memVars
       ELSE /\ SetBroker(Release(Broker))
            /\ mpc' = IF mpc \in Released THEN "released again"
                      ELSE "released"
    /\ UNCHANGED <<stop_program_event, regVars, workerVars, handlerVars>>

\* another process unlinks NAME
ExternalUnlink ==
    /\ shm # NoSeg
    /\ shm' = NoSeg
    /\ UNCHANGED <<memory, nalloc, mainVars, regVars, workerVars, handlerVars>>

\* the segments another process may link under NAME
OtherSegs ==
    {[OtherSeg EXCEPT !.size = z, !.bytes = [i \in 1..z |-> t]] :
        z \in Sizes, t \in {0} \cup Tags}

\* another process links a segment of its own under NAME
ExternalCreate ==
    /\ shm = NoSeg
    /\ shm' \in OtherSegs
    /\ UNCHANGED <<memory, nalloc, mainVars, regVars, workerVars, handlerVars>>

NextBroker ==
    \/ \E z \in Sizes, t \in Tags : BrokerPush([size |-> z, tag |-> t])
    \/ \E z \in Sizes, t \in Tags : BrokerPushFails([size |-> z, tag |-> t])
    \/ BrokerRelease
    \/ ExternalUnlink
    \/ ExternalCreate

SpecBroker == Init /\ [][NextBroker]_vars

\* ------------------------------------------------------------- properties
\* a handler thread is between its queue.put and its response_cache.pop
Submitting(h) == hpc[h] \in {"h_prewait", "h_waiting", "h_notified"}

\* the worker holds a dequeued command it has not answered yet
Evaluating(d) == wpc[d] \in {"lock", "evaluate", "push", "copy"}

\* C1: on a connection, the n-th request decoded by handle() is followed by
\* the connection having received exactly n responses, the i-th being the
\* response the worker produced for the i-th request.
C1_RequestsAnsweredInOrder ==
    \A h \in Listeners : \A n \in 1..MaxReq :
        (nread[h] = n) ~>
            (/\ Len(sent[h]) = n
             /\ \A i \in 1..n : sent[h][i] = [by |-> h, id |-> i])

\* C2: a handler that has enqueued a request always gets past
\* is_working.wait(): it writes the response or closes the connection.
C2_HandlerGetsOutcome ==
    \A h \in Listeners : Submitting(h) ~> ~Submitting(h)

\* C3: with one listener per device, the commands in a registration's queue,
\* the command its worker is evaluating and the responses in its
\* response_cache together number at most one.
Outstanding(d) ==
    Len(queue[d]) + (IF Evaluating(d) THEN 1 ELSE 0) + Len(response_cache[d])

C3_SingleFlight == \A d \in Devices : Outstanding(d) <= 1

\* the response to the second request of a connection sits in response_cache
C3_Witness ==
    \E d \in Devices :
        /\ Len(response_cache[d]) = 1
        /\ response_cache[d][1].id = 2
        /\ hpc[d] = "h_notified"

\* C4: a response is 500 with (error class, args) whenever resolving or
\* invoking the operation raised, a TypeError of the callable included;
\* otherwise, for a non-payload operation, it is 200 with the returned value.
C4_StatusReflectsRaise ==
    \A d \in Devices : \A i \in 1..Len(response_cache[d]) :
        LET r == response_cache[d][i]
        IN  /\ r.dev \in {"raised", "typeerror", "noattr", "badname"}
                => r.status = 500 /\ r.payload.kind = "error"
            /\ (r.dev = "returned" /\ r.op \notin PayloadOps)
                => r.status = 200 /\ r.payload = Value("value", r.op, 0, r.dval)

\* C5: the device server never raises out of its loop, and its loop ends
\* only by the branch taken on a queue timeout with the event set.
C5_WorkerNeverRaises ==
    \A d \in Devices :
        /\ wpc[d] # "crashed"
        /\ wpc[d] = "done" => stop_program_event

\* C6: once the event is set, the device servers and the listeners end and
\* the four join() calls of main() return.
C6_ShutdownTerminates == stop_program_event ~> (mpc = "stopped")

\* C7: when a device server has left its loop, no command that was enqueued
\* before the event was set is left unanswered in its queue.
C7_NoCommandLostAtShutdown ==
    \A d \in Devices :
        wpc[d] = "done" =>
            \A i \in 1..Len(queue[d]) : ~queue[d][i].pre

\* C8: a device server never ends leaving a command in its queue, whenever
\* that command was enqueued.
C8_QueueDrained ==
    \A d \in Devices : WorkerEnded(d) => queue[d] = <<>>

PushDecides(d) ==
    (wpc[d] = "push" /\ wpc'[d] = "copy") =>
        /\ (nalloc' = nalloc + 1) <=> (memory = None \/ memory.size # ret[d].size)
        /\ (nalloc' = nalloc) <=> (memory' = memory)
        /\ nalloc' # nalloc => memory'.seg \notin {memory.seg, shm.id}

PushDelivers(d) ==
    (/\ wpc[d] = "copy"
     /\ wpc'[d] = "get"
     /\ Last(response_cache'[d]).status = 200) =>
        /\ memory' # None
        /\ ~memory'.closed
        /\ memory'.size = ret[d].size
        /\ shm' = [id |-> memory'.seg, size |-> ret[d].size,
                   bytes |-> ImageBytes(ret[d])]

C10_PushAllocatesAndFills ==
    [][\A d \in Devices : PushDecides(d) /\ PushDelivers(d)]_vars

\* a segment that this process created is still linked under NAME
BrokerSegmentLive == shm.id > 0

\* C11: once main() has set the stop flag, released the broker and joined
\* the four threads, the broker holds no segment and no segment it created
\* is still linked.
C11_NoSegmentAfterStop ==
    mpc = "stopped" => (memory = None /\ ~BrokerSegmentLive)

\* the threads that are executing inside SharedImageProxy.push, initialize
\* or release: a server thread from evaluate() line 144 until push() returns,
\* main() from release()'s close (line 67) until line 72
InsideBroker ==
    {d \in Devices : wpc[d] \in {"push", "copy"}}
        \cup (IF mpc \in {"unlink", "clear"} THEN {"main"} ELSE {})

\* C12: in every reachable state at most one thread (a device's server
\* thread or main) is executing inside the broker's push, initialize or
\* release.
C12_BrokerCallsSerialized == Cardinality(InsideBroker) <= 1

\* C13: reading a sentinel ('exit' or 'kill') makes handle() leave its loop
\* and close the connection; the step that reads it and the step that closes
\* leave the queue, the response slot and the stop flag as they were, write
\* nothing to the client, and no sentinel is ever enqueued as a command.
C13_SentinelClosesSilently ==
    [][\A h \in Handlers :
         /\ (hpc[h] # "x_sentinel" /\ hpc'[h] = "x_sentinel") =>
                /\ hpc[h] = "recv"
                /\ UNCHANGED <<queue, response_cache, stop_program_event,
                               sent, is_working>>
         /\ (hpc[h] = "x_sentinel" /\ hpc'[h] # "x_sentinel") =>
                /\ hpc'[h] = "l_check"
                /\ sent'[h] = <<>>
                /\ UNCHANGED <<queue, response_cache, stop_program_event>>
         /\ \A i \in 1..Len(queue'[DevOf(h)]) :
                queue'[DevOf(h)][i].op \notin Sentinels]_vars

\* a sentinel was read on a connection that had one request answered
C13_Witness ==
    \E h \in Handlers : hpc[h] = "x_sentinel" /\ Len(sent[h]) = 1

\* the server thread of d is alive and back at queue.get, or has ended
\* because the stop flag was set
WorkerServing(d) ==
    \/ wpc[d] \in {"get", "timedout"}
    \/ wpc[d] = "done" /\ stop_program_event

\* C14: the response to a request that names a plain (non-callable)
\* attribute has status 200 and the attribute's value as payload, and the
\* server thread that produced it goes on running.
C14_AttributeReadReturnsValue ==
    \A d \in Devices : \A i \in 1..Len(response_cache[d]) :
        response_cache[d][i].op = "attr" =>
            /\ response_cache[d][i].status = 200
            /\ response_cache[d][i].payload = Value("attr", "attr", 0, 0)
            /\ WorkerServing(d)

\* a response to an attribute read is in the response slot
C14_Witness ==
    \E d \in Devices :
        /\ response_cache[d] # <<>>
        /\ Last(response_cache[d]).op = "attr"
        /\ Last(response_cache[d]).dev = "notcallable"

\* C15: the response to a request that names an operation the device does
\* not have has status 500 and an error payload with a non-empty kind, shaped
\* as the response to a raising device call, and the server thread goes on
\* to the next command.
C15_UnknownOperationIsError ==
    \A d \in Devices : \A i \in 1..Len(response_cache[d]) :
        response_cache[d][i].op \in {"nope"} \cup
                (IF d = "cam" THEN {} ELSE PayloadOps) =>
            /\ response_cache[d][i].status = 500
            /\ response_cache[d][i].payload =
                   Value("error", "AttributeError", 0, 0)
            /\ WorkerServing(d)

\* a response to a request for a missing operation is in the response slot
C15_Witness ==
    \E d \in Devices :
        /\ response_cache[d] # <<>>
        /\ Last(response_cache[d]).op = "nope"
        /\ Last(response_cache[d]).dev = "noattr"

\* C16: release() never raises, whatever the broker holds and whether or not
\* the segment is still linked under its name; after it the broker holds no
\* segment, and a further release() changes nothing.
C16_ReleaseIdempotent ==
    /\ [](/\ mpc # "crashed"
          /\ mpc \in Released => memory = None
          /\ Release(Release(Broker)) = Release(Broker))
    /\ [][(BrokerRelease /\ mpc \in Released) => UNCHANGED memVars]_vars

\* release() was called again after it had released a segment the broker
\* created
C16_Witness == mpc = "released again" /\ memory = None /\ nalloc >= 1

\* C17: a segment found linked under the name when initialize() creates its
\* own is reclaimed (closed and unlinked) and the create retried once, so
\* that push() never copies with the foreign segment linked; when the retry
\* fails too, the command is answered with status 500, the broker holds
\* nothing, and the server thread goes on: a server thread only ever dies of
\* a command that is no mapping.
C17_StaleSegmentReclaimed ==
    \A d \in Devices :
        /\ \A i \in 1..Len(response_cache[d]) :
              response_cache[d][i].payload.name = "FileExistsError" =>
                  /\ response_cache[d][i].status = 500
                  /\ memory = None
                  /\ shm = OtherSeg
                  /\ WorkerServing(d)
        /\ wpc[d] = "copy" => shm.id >= 0
        /\ wpc[d] = "crashed" => ~cmd[d].map

\* the retry of line 52 failed and its status-500 response is in the slot
C17_Witness ==
    \E d \in Devices :
        /\ response_cache[d] # <<>>
        /\ Last(response_cache[d]).payload.name = "FileExistsError"
        /\ shm = OtherSeg

\* the device instances the server thread of d is working on: its own while
\* it evaluates a command (lines 122, 138-140), and for the camera, which is
\* constructed with tem=tem_server.device (lines 106, 240), the microscope
\* instance whose state it reads to simulate an image (main's docstring)
Touches(d) ==
    IF wpc[d] # "evaluate" THEN {}
    ELSE IF d = "cam" /\ cmd[d].op \in PayloadOps THEN {"cam", "tem"}
    ELSE {d}

\* C18: a device instance is read or mutated only by the server thread that
\* constructed it, never by the other device's server thread.
C18_DeviceOwnedByItsWorker ==
    \A d \in Devices : Touches(d) \subseteq {d}

\* C19: an exception raised while a connection is handled (bytes that do
\* not decode, a reset connection, a send that fails) leaves the
\* registration's mutex free and its queue and response slot empty; the
\* listener then closes that connection and is back at the top of its loop;
\* an accept that times out takes it there as well; and its loop is left
\* only with the stop flag set.
C19_ListenerSurvives ==
    /\ [](\A h \in Listeners :
            /\ hpc[h] = "x_error" =>
                   /\ is_working[DevOf(h)].owner = "free"
                   /\ queue[DevOf(h)] = <<>>
                   /\ response_cache[DevOf(h)] = <<>>
            /\ hpc[h] = "l_done" => stop_program_event)
    /\ [][\A h \in Listeners :
            /\ (hpc[h] = "x_error" /\ hpc'[h] # "x_error") =>
                   /\ hpc'[h] = "l_check"
                   /\ UNCHANGED <<regVars, workerVars, memVars>>
            /\ (hpc[h] = "accept" /\ hpc'[h] # "accept") =>
                   hpc'[h] \in {"l_check", "h_check"}
            /\ (hpc[h] = "l_check" /\ hpc'[h] # "l_check") =>
                   hpc'[h] = (IF stop_program_event THEN "l_done"
                              ELSE "accept")]_vars

\* a send failed: a request was read and answered by the device, nothing
\* went out on the connection, and handle() is being left by the exception
C19_Witness ==
    \E h \in Listeners :
        hpc[h] = "x_error" /\ nread[h] = 1 /\ sent[h] = <<>>

\* the server thread of d is inside its with is_working block, holding a
\* command (lines 116-132)
InCriticalSection(d) == wpc[d] \in {"evaluate", "push", "copy"}

\* C20: no wake-up is lost.  A handler holds is_working from its queue.put
\* until its wait(), so while the server thread is inside its critical
\* section the handler that enqueued the command is the one thread blocked
\* in wait(); and every response in response_cache belongs to a handler that
\* has been notified and has not popped it yet.
C20_NoLostWakeup ==
    /\ \A h \in Listeners :
          hpc[h] = "h_prewait" =>
              /\ is_working[DevOf(h)].owner = h
              /\ ~InCriticalSection(DevOf(h))
    /\ \A d \in Devices :
          /\ InCriticalSection(d) =>
                /\ is_working[d].waiters = <<cmd[d].by>>
                /\ hpc[cmd[d].by] = "h_waiting"
          /\ \A i \in 1..Len(response_cache[d]) :
                /\ hpc[response_cache[d][i].by] = "h_notified"
                /\ is_working[d].waiters = <<>>

\* notify() has just woken the submitter: the server thread is back at
\* queue.get, nobody waits any more and the response is still in the slot
C20_Witness ==
    \E d \in Devices :
        /\ response_cache[d] # <<>>
        /\ hpc[Last(response_cache[d]).by] = "h_notified"
        /\ is_working[d] = [owner |-> "free", waiters |-> <<>>]
        /\ wpc[d] = "get"

====
